---------------------------- MODULE Spec2Model ----------------------------
(* API de Productos - Cooperativa (src/main.py).                           *)
(*                                                                         *)
(* Strings are sequences of one-character strings, so that str.strip() and *)
(* str.lower() are computed character by character.  A Decimal is the      *)
(* triple Python's Decimal.as_tuple() gives: sign, digits, exponent.       *)
EXTENDS Integers, Sequences, FiniteSets, Bags, TLC

VARIABLES
    DB,          \* the dict
    emitidos,    \* the values uuid4() has returned
    enCurso,     \* the handlers between their two accesses to DB
    resp,        \* the last response sent
    creados,     \* history: how many products were created
    eliminados,  \* history: the ids whose DELETE answered 204
    escrito      \* history: per id, the last product a POST or PUT returned

vars == <<DB, emitidos, enCurso, resp, creados, eliminados, escrito>>

-----------------------------------------------------------------------------
(* Bounds of the model. *)

\* number of request handlers that may be between two accesses to DB at once
NumThreads == 2
\* number of values uuid4() can draw from
NumIds == 2
\* longest run of blanks put around a name
MaxPad == 2
\* most fractional digits of a submitted price
MaxPlaces == 3
\* longest raw category list enumerated entry by entry
MaxLista == 2

-----------------------------------------------------------------------------
(* Program constants. *)

NombreMinLen == 3
NombreMaxLen == 60
PrecioMaxDigits == 10
PrecioDecimalPlaces == 2
CategoriasMinLen == 1
CategoriasMaxLen == 10

-----------------------------------------------------------------------------
(* Strings. *)

\* n copies of c (none when n <= 0)
Rep(c, n) == IF n > 0 THEN [i \in 1..n |-> c] ELSE <<>>

Mayusculas == <<"A","B","C","D","E","F","G","H","I","J","K","L","M",
                "N","O","P","Q","R","S","T","U","V","W","X","Y","Z">>
Minusculas == <<"a","b","c","d","e","f","g","h","i","j","k","l","m",
                "n","o","p","q","r","s","t","u","v","w","x","y","z">>

Blancos == {" ", "\t", "\n"}

\* str.lower(), one character
LowerTabla ==
    [c \in {Mayusculas[i] : i \in 1..Len(Mayusculas)} |->
        Minusculas[CHOOSE i \in 1..Len(Mayusculas) : Mayusculas[i] = c]]

LowerChar(c) == IF c \in DOMAIN LowerTabla THEN LowerTabla[c] ELSE c

\* str.lower()
Lower(s) == [i \in 1..Len(s) |-> LowerChar(s[i])]

\* str.strip(): drops the leading and the trailing whitespace
Strip(s) ==
    LET negros == {i \in 1..Len(s) : s[i] \notin Blancos}
    IN  IF negros = {} THEN <<>>
        ELSE LET a == CHOOSE i \in negros : \A j \in negros : i <= j
                 b == CHOOSE i \in negros : \A j \in negros : j <= i
             IN  SubSeq(s, a, b)

\* set(v)
ToSet(s) == {s[i] : i \in 1..Len(s)}

-----------------------------------------------------------------------------
(* The category catalog. *)

Granos     == <<"g","r","a","n","o","s">>
Frutas     == <<"f","r","u","t","a","s">>
Hortalizas == <<"h","o","r","t","a","l","i","z","a","s">>
Lacteos    == <<"l","a","c","t","e","o","s">>
Carnes     == <<"c","a","r","n","e","s">>
Procesados == <<"p","r","o","c","e","s","a","d","o","s">>
Organicos  == <<"o","r","g","a","n","i","c","o","s">>
Ofertas    == <<"o","f","e","r","t","a","s">>
Semillas   == <<"s","e","m","i","l","l","a","s">>
Bebidas    == <<"b","e","b","i","d","a","s">>

CATALOGO_CATEGORIAS ==
    {Granos, Frutas, Hortalizas, Lacteos, Carnes,
     Procesados, Organicos, Ofertas, Semillas, Bebidas}

-----------------------------------------------------------------------------
(* Decimal: [sign, digits, exp] is (-1)^sign * digits * 10^exp, the digits *)
(* without leading zeros (zero is the single digit 0).                     *)

Dec(sg, ds, e) == [sign |-> sg, digits |-> ds, exp |-> e]

EsCero(ds) == \A i \in 1..Len(ds) : ds[i] = 0

RECURSIVE SinCerosIzq(_)
SinCerosIzq(ds) ==
    IF Len(ds) > 1 /\ Head(ds) = 0 THEN SinCerosIzq(Tail(ds)) ELSE ds

RECURSIVE CerosFinales(_)
CerosFinales(ds) ==
    IF ds # <<>> /\ ds[Len(ds)] = 0
    THEN 1 + CerosFinales(SubSeq(ds, 1, Len(ds) - 1))
    ELSE 0

\* Decimal.normalize(): trailing zeros move into the exponent
Normalize(d) ==
    IF EsCero(d.digits) THEN Dec(d.sign, <<0>>, 0)
    ELSE LET k == CerosFinales(d.digits)
         IN  Dec(d.sign, SubSeq(d.digits, 1, Len(d.digits) - k), d.exp + k)

\* the coefficient plus one
RECURSIVE Incrementar(_)
Incrementar(ds) ==
    IF ds = <<>> THEN <<1>>
    ELSE IF ds[Len(ds)] < 9
         THEN SubSeq(ds, 1, Len(ds) - 1) \o <<ds[Len(ds)] + 1>>
         ELSE Incrementar(SubSeq(ds, 1, Len(ds) - 1)) \o <<0>>

\* Decimal.quantize(Decimal("0.01"), rounding=ROUND_HALF_UP)
Redondear(d, lleno, k) ==
    Dec(d.sign,
        SinCerosIzq(IF lleno[Len(lleno) - k + 1] >= 5
                    THEN Incrementar(SubSeq(lleno, 1, Len(lleno) - k))
                    ELSE SubSeq(lleno, 1, Len(lleno) - k)),
        -PrecioDecimalPlaces)

Quantize(d) ==
    IF d.exp >= -PrecioDecimalPlaces
    THEN Dec(d.sign,
             IF EsCero(d.digits) THEN <<0>>
             ELSE d.digits \o Rep(0, d.exp + PrecioDecimalPlaces),
             -PrecioDecimalPlaces)
    ELSE Redondear(d,
                   Rep(0, (-PrecioDecimalPlaces) - d.exp + 1 - Len(d.digits)) \o d.digits,
                   (-PrecioDecimalPlaces) - d.exp)

\* (decimals, digits) as pydantic counts them for max_digits / decimal_places
DigitsInfo(d) ==
    IF d.exp >= 0
    THEN [decimals |-> 0, digits |-> Len(d.digits) + d.exp]
    ELSE [decimals |-> -d.exp,
          digits   |-> IF Len(d.digits) > -d.exp THEN Len(d.digits) ELSE -d.exp]

\* v > 0
Positivo(d) == d.sign = 0 /\ ~EsCero(d.digits)

-----------------------------------------------------------------------------
(* ProductoIn: the field constraints, then the field's validator.          *)

Bien(v) == [ok |-> TRUE, val |-> v]
Mal(campo, tipo, lista) ==
    [ok |-> FALSE, campo |-> campo, tipo |-> tipo, desconocidas |-> lista]

\* @field_validator("nombre")
validar_nombre(v) ==
    IF Strip(v) = <<>> THEN Mal("nombre", "nombre_vacio", <<>>) ELSE Bien(v)

\* nombre: str = Field(..., min_length=3, max_length=60, strip_whitespace=True)
\* Field() has no strip_whitespace parameter: the keyword only lands in the
\* JSON schema, and the length is counted on the string as submitted.
CampoNombre(v) ==
    IF Len(v) < NombreMinLen THEN Mal("nombre", "string_too_short", <<>>)
    ELSE IF Len(v) > NombreMaxLen THEN Mal("nombre", "string_too_long", <<>>)
    ELSE validar_nombre(v)

\* a variant that returns the price as submitted
normalizar_precio_sin_quantize(v) == v

\* @field_validator("precio")
normalizar_precio(v) == Quantize(v)

\* precio: Decimal = Field(..., gt=0, max_digits=10, decimal_places=2)
\* The digit constraints are checked on the value as submitted (info) and on
\* the normalized value (norm), and fail when both exceed the limit; the
\* whole-digit limit is max_digits - decimal_places.  The validator runs
\* afterwards.
PrecioRestringido(v, info, norm) ==
    IF info.digits > PrecioMaxDigits /\ norm.digits > PrecioMaxDigits
    THEN Mal("precio", "decimal_max_digits", <<>>)
    ELSE IF info.decimals > PrecioDecimalPlaces
            /\ norm.decimals > PrecioDecimalPlaces
    THEN Mal("precio", "decimal_max_places", <<>>)
    ELSE IF info.digits - info.decimals > PrecioMaxDigits - PrecioDecimalPlaces
    THEN Mal("precio", "decimal_whole_digits", <<>>)
    ELSE IF ~Positivo(v)
    THEN Mal("precio", "greater_than", <<>>)
    ELSE Bien(normalizar_precio(v))

CampoPrecio(v) == PrecioRestringido(v, DigitsInfo(v), DigitsInfo(Normalize(v)))

\* normalizadas = [c.strip().lower() for c in v if c and c.strip()]
Normalizadas(v) ==
    LET NoVacia(c) == c # <<>> /\ Strip(c) # <<>>
        Norm(f)    == [i \in 1..Len(f) |-> Lower(Strip(f[i]))]
    IN  Norm(SelectSeq(v, NoVacia))

\* a variant that reports the first unknown category only
DesconocidasPrimera(normalizadas) ==
    LET Ajena(c) == c \notin CATALOGO_CATEGORIAS
    IN  IF SelectSeq(normalizadas, Ajena) = <<>> THEN <<>>
        ELSE <<Head(SelectSeq(normalizadas, Ajena))>>

\* desconocidas = [c for c in normalizadas if c not in CATALOGO_CATEGORIAS]
Desconocidas(normalizadas) ==
    LET Ajena(c) == c \notin CATALOGO_CATEGORIAS
    IN  SelectSeq(normalizadas, Ajena)

CategoriasRevisadas(normalizadas, desconocidas) ==
    IF normalizadas = <<>>
    THEN Mal("categorias", "al_menos_una", <<>>)
    ELSE IF Len(normalizadas) # Cardinality(ToSet(normalizadas))
    THEN Mal("categorias", "repetidas", <<>>)
    ELSE IF desconocidas # <<>>
    THEN Mal("categorias", "no_permitidas", desconocidas)
    ELSE Bien(normalizadas)

\* @field_validator("categorias")
validar_categorias(v) ==
    CategoriasRevisadas(Normalizadas(v), Desconocidas(Normalizadas(v)))

\* a variant that counts the entries after the validator has dropped the blanks
CampoCategoriasDespues(v) ==
    IF Len(Normalizadas(v)) > CategoriasMaxLen THEN Mal("categorias", "too_long", <<>>)
    ELSE validar_categorias(v)

\* categorias: List[str] = Field(..., min_length=1, max_length=10)
CampoCategorias(v) ==
    IF Len(v) < CategoriasMinLen THEN Mal("categorias", "too_short", <<>>)
    ELSE IF Len(v) > CategoriasMaxLen THEN Mal("categorias", "too_long", <<>>)
    ELSE validar_categorias(v)

\* The outcome of the three fields: the product, or the errors of all the
\* failing fields, in field order.
Reunir(n, p, c) ==
    LET NoOk(r) == ~r.ok
    IN  IF n.ok /\ p.ok /\ c.ok
        THEN [ok |-> TRUE,
              val |-> [nombre |-> n.val, precio |-> p.val, categorias |-> c.val]]
        ELSE [ok |-> FALSE, errores |-> SelectSeq(<<n, p, c>>, NoOk)]

\* The validation of ProductoIn(**raw)
model_validate(raw) ==
    Reunir(CampoNombre(raw.nombre), CampoPrecio(raw.precio),
           CampoCategorias(raw.categorias))

-----------------------------------------------------------------------------
(* The dict DB, as the mapping from its keys to its values.  The insertion *)
(* order a dict also keeps shows only in the order of GET /productos, whose *)
(* response is modelled as the collection of the values.                   *)

Keys(db) == DOMAIN db

\* DB.get(k), for a key that is present
Get(db, k) == db[k]

\* a variant that leaves a key that is present as it is
GuardarSiFalta(db, k, v) ==
    [x \in DOMAIN db \cup {k} |-> IF x \in DOMAIN db THEN db[x] ELSE v]

\* DB[k] = v
Guardar(db, k, v) == [x \in DOMAIN db \cup {k} |-> IF x = k THEN v ELSE db[x]]

\* del DB[k], for a key that is present
Quitar(db, k) == [x \in DOMAIN db \ {k} |-> db[x]]

\* list(DB.values())
Values(db) == {db[k] : k \in DOMAIN db}

UUIDs == 1..NumIds

\* a generator that can return a value again
uuid4Repite == UUIDs

\* uuid4(): the values it can return.  A value is not returned twice.
uuid4 == UUIDs \ emitidos

-----------------------------------------------------------------------------
(* Requests and responses. *)

SinCuerpo == [nombre |-> <<>>, precio |-> Dec(0, <<0>>, 0), categorias |-> <<>>]

\* id 0 and SinCuerpo stand for a request without an id or without a body
Respuesta(op, id, status, cuerpo, body) ==
    [op |-> op, id |-> id, status |-> status, cuerpo |-> cuerpo, body |-> body]

\* a handler that has checked the id and has not yet written or removed
Pendiente(pc, id, cuerpo) == [pc |-> pc, id |-> id, cuerpo |-> cuerpo]

\* a worker thread of the pool is free to run a handler
Libre == BagCardinality(enCurso) < NumThreads

Init ==
    /\ DB = <<>>
    /\ emitidos = {}
    /\ enCurso = EmptyBag
    /\ resp = Respuesta("none", 0, 0, SinCuerpo, <<>>)
    /\ creados = 0
    /\ eliminados = {}
    /\ escrito = <<>>

-----------------------------------------------------------------------------
(* The request bodies submitted to the store. *)

Abc       == <<"a","b","c">>
AbBlancos == <<" ","a","b"," ">>
GranosRaw == <<"G","r","a","n","o","s"," ">>
Marcianos == <<"m","a","r","c","i","a","n","o","s">>

\* 10.5, 7, 10.005 and 10.004
Precio10_5   == Dec(0, <<1,0,5>>, -1)
Precio7      == Dec(0, <<7>>, 0)
Precio10_005 == Dec(0, <<1,0,0,0,5>>, -3)
Precio10_004 == Dec(0, <<1,0,0,0,4>>, -3)

Cuerpo(n, p, c) == [nombre |-> n, precio |-> p, categorias |-> c]

Cuerpos ==
    { Cuerpo(Abc, Precio10_5, <<GranosRaw, <<>>>>),
      Cuerpo(AbBlancos, Precio7, <<Ofertas, Frutas>>),
      Cuerpo(Abc, Precio10_005, <<Granos>>) }

------------------------------------------------------------------------\* The validation of the bodies above, and of what it returns for them,
\* computed once.
Validados == {<<c, model_validate(c)>> : c \in Cuerpos}

Revalidados ==
    {<<p[2].val, model_validate(p[2].val)>> : p \in {q \in Validados : q[2].ok}}

Buscar(raw, tabla) ==
    IF \E p \in tabla : p[1] = raw
    THEN (CHOOSE p \in tabla : p[1] = raw)[2]
    ELSE model_validate(raw)

\* ProductoIn(**raw)
ProductoIn(raw) == Buscar(raw, Validados \cup Revalidados)

ConId(id, r) ==
    IF r.ok
    THEN [ok |-> TRUE,
          val |-> [id |-> id, nombre |-> r.val.nombre, precio |-> r.val.precio,
                   categorias |-> r.val.categorias]]
    ELSE r

\* ProductoOut(id=id, **prod.model_dump()): the fields are validated again
ProductoOut(id, campos) == ConId(id, ProductoIn(campos))

-----
(* The handlers. *)

\* POST /productos
crear_producto(cuerpo) ==
    \E prod \in {ProductoIn(cuerpo)} :
       IF ~prod.ok
       THEN /\ resp' = Respuesta("crear", 0, 422, cuerpo, prod.errores)
            /\ UNCHANGED <<DB, emitidos, enCurso, creados, eliminados, escrito>>
       ELSE /\ Libre
            /\ \E u \in uuid4 : \E nuevo \in {ProductoOut(u, prod.val)} :
                  /\ emitidos' = emitidos \cup {u}
                  /\ IF nuevo.ok
                     THEN /\ DB' = Guardar(DB, nuevo.val.id, nuevo.val)
                          /\ resp' = Respuesta("crear", nuevo.val.id, 201, cuerpo,
                                               <<nuevo.val>>)
                          /\ creados' = creados + 1
                          /\ escrito' = [x \in DOMAIN escrito \cup {u} |->
                                           IF x = u THEN nuevo.val ELSE escrito[x]]
                     ELSE /\ resp' = Respuesta("crear", 0, 500, cuerpo, nuevo.errores)
                          /\ UNCHANGED <<DB, creados, escrito>>
            /\ UNCHANGED <<enCurso, eliminados>>

\* GET /productos
listar_productos ==
    /\ Libre
    /\ resp' = Respuesta("listar", 0, 200, SinCuerpo, Values(DB))
    /\ UNCHANGED <<DB, emitidos, enCurso, creados, eliminados, escrito>>

\* GET /productos/{producto_id}
obtener_producto(producto_id) ==
    /\ Libre
    /\ resp' = IF producto_id \notin Keys(DB)
               THEN Respuesta("obtener", producto_id, 404, SinCuerpo, <<>>)
               ELSE Respuesta("obtener", producto_id, 200, SinCuerpo,
                              <<Get(DB, producto_id)>>)
    /\ UNCHANGED <<DB, emitidos, enCurso, creados, eliminados, escrito>>

\* PUT /productos/{producto_id}: the body is validated, then `producto_id not in DB`
actualizar_check(producto_id, cuerpo) ==
    \E prod \in {ProductoIn(cuerpo)} :
       IF ~prod.ok
       THEN /\ resp' = Respuesta("actualizar", producto_id, 422, cuerpo, prod.errores)
            /\ UNCHANGED <<DB, emitidos, enCurso, creados, eliminados, escrito>>
       ELSE /\ Libre
            /\ IF producto_id \notin Keys(DB)
               THEN /\ resp' = Respuesta("actualizar", producto_id, 404, cuerpo, <<>>)
                    /\ UNCHANGED enCurso
               ELSE /\ enCurso' = enCurso (+) SetToBag({Pendiente("actualizar", producto_id, cuerpo)})
                    /\ UNCHANGED resp
            /\ UNCHANGED <<DB, emitidos, creados, eliminados, escrito>>

\* PUT /productos/{producto_id}: `DB[producto_id] = actualizado`
actualizar_write(h) ==
    /\ h.pc = "actualizar"
    /\ enCurso' = enCurso (-) SetToBag({h})
    /\ \E prod \in {ProductoIn(h.cuerpo)} : \E actualizado \in {ProductoOut(h.id, prod.val)} :
          IF actualizado.ok
          THEN /\ DB' = Guardar(DB, h.id, actualizado.val)
               /\ resp' = Respuesta("actualizar", h.id, 200, h.cuerpo, <<actualizado.val>>)
               /\ escrito' = [x \in DOMAIN escrito \cup {h.id} |->
                                IF x = h.id THEN actualizado.val ELSE escrito[x]]
          ELSE /\ resp' = Respuesta("actualizar", h.id, 500, h.cuerpo, actualizado.errores)
               /\ UNCHANGED <<DB, escrito>>
    /\ UNCHANGED <<emitidos, creados, eliminados>>

\* DELETE /productos/{producto_id}: `producto_id not in DB`
eliminar_check(producto_id) ==
    /\ Libre
    /\ IF producto_id \notin Keys(DB)
       THEN /\ resp' = Respuesta("eliminar", producto_id, 404, SinCuerpo, <<>>)
            /\ UNCHANGED enCurso
       ELSE /\ enCurso' = enCurso (+) SetToBag({Pendiente("eliminar", producto_id, SinCuerpo)})
            /\ UNCHANGED resp
    /\ UNCHANGED <<DB, emitidos, creados, eliminados, escrito>>

\* DELETE /productos/{producto_id}: `del DB[producto_id]`, a KeyError when
\* the key is gone
eliminar_del(h) ==
    /\ h.pc = "eliminar"
    /\ enCurso' = enCurso (-) SetToBag({h})
    /\ IF h.id \in Keys(DB)
       THEN /\ DB' = Quitar(DB, h.id)
            /\ resp' = Respuesta("eliminar", h.id, 204, SinCuerpo, <<>>)
            /\ eliminados' = eliminados \cup {h.id}
            /\ escrito' = [x \in DOMAIN escrito \ {h.id} |-> escrito[x]]
       ELSE /\ resp' = Respuesta("eliminar", h.id, 500, SinCuerpo, <<>>)
            /\ UNCHANGED <<DB, eliminados, escrito>>
    /\ UNCHANGED <<emitidos, creados>>

-----------------------------------------------------------------------------
(* The server: handlers run on the threads of a pool, and a thread may be  *)
(* preempted between two accesses to DB.                                   *)

Arranque ==
    \/ \E cuerpo \in Cuerpos : crear_producto(cuerpo)
    \/ listar_productos
    \/ \E id \in UUIDs : obtener_producto(id)
    \/ \E id \in UUIDs, cuerpo \in Cuerpos : actualizar_check(id, cuerpo)
    \/ \E id \in UUIDs : eliminar_check(id)

Continuacion ==
    \/ \E h \in BagToSet(enCurso) : actualizar_write(h)
    \/ \E h \in BagToSet(enCurso) : eliminar_del(h)

Next == Arranque \/ Continuacion

Spec == Init /\ [][Next]_vars

\* a sequential run: a request starts when no handler is in progress
SeqNext == (enCurso = EmptyBag /\ Arranque) \/ Continuacion

SpecSeq == Init /\ [][SeqNext]_vars

-----------------------------------------------------------------------------
(* The validation on its own, over a wider range of bodies.                *)

Blanco    == <<" "," ">>
FrutasRaw == <<" ","F","R","U","T","A","S">>
VenusRaw  == <<"V","e","n","u","s"," ">>

\* names of every length around the two limits, with blanks around them
Nombres ==
    {Rep(" ", l) \o Rep("a", n) \o Rep(" ", r) :
        l \in 0..MaxPad, r \in 0..MaxPad,
        n \in (0..NombreMinLen + 1) \cup (NombreMaxLen - 3..NombreMaxLen + 1)}

Coeficientes ==
    {<<0>>, <<4>>, <<5>>, <<1,0>>, <<9,9,5>>, <<1,0,0,0>>, <<5,9,9,9>>,
     <<1,0,0,0,4>>, <<1,0,0,0,5>>,
     Rep(9, PrecioMaxDigits - 2), Rep(9, PrecioMaxDigits - 1),
     Rep(9, PrecioMaxDigits), Rep(9, PrecioMaxDigits + 1)}

Precios == {Dec(sg, ds, e) : sg \in {0, 1}, ds \in Coeficientes, e \in -MaxPlaces..1}

EntradasCat == {Granos, GranosRaw, FrutasRaw, Ofertas, Marcianos, VenusRaw, <<>>, Blanco}

TodasLasCategorias ==
    <<Granos, Frutas, Hortalizas, Lacteos, Carnes,
      Procesados, Organicos, Ofertas, Semillas, Bebidas>>

\* the short lists entry by entry, and lists around the upper limit
Listas ==
    UNION {[1..n -> EntradasCat] : n \in 0..MaxLista}
    \cup {SubSeq(TodasLasCategorias, 1, n) \o cola :
            n \in CategoriasMaxLen - 2..CategoriasMaxLen,
            cola \in {<<>>, <<Blanco>>, <<<<>>, Blanco>>, <<Marcianos>>, <<VenusRaw, Blanco>>}}
    \cup {<<Marcianos, Granos, VenusRaw>>, <<Blanco, Marcianos, <<>>, FrutasRaw, VenusRaw>>}

Entradas ==
    {Cuerpo(n, Precio7, <<Granos>>) : n \in Nombres}
    \cup {Cuerpo(Abc, p, <<Granos>>) : p \in Precios}
    \cup {Cuerpo(Abc, Precio7, c) : c \in Listas}
    \cup {Cuerpo(n, p, c) : n \in {Abc, AbBlancos, Blanco},
                            p \in {Precio10_5, Precio10_005, Dec(0, <<0>>, 0)},
                            c \in {<<GranosRaw>>, <<Granos, Marcianos>>, <<>>}}

\* the body of a POST or a PUT is parsed: ProductoIn(**raw), a 422 on error
validar(cuerpo) ==
    \E prod \in {ProductoIn(cuerpo)} :
       /\ resp' = IF prod.ok
                  THEN Respuesta("validar", 0, 200, cuerpo, <<prod.val>>)
                  ELSE Respuesta("validar", 0, 422, cuerpo, prod.errores)
       /\ UNCHANGED <<DB, emitidos, enCurso, creados, eliminados, escrito>>

ValNext == \E cuerpo \in Entradas : validar(cuerpo)

SpecVal == Init /\ [][ValNext]_vars

-----------------------------------------------------------------------------
(* Properties. *)

\* the errors a 422 response reports for a field
ErroresDe(r, campo) ==
    IF r.status = 422
    THEN {r.body[i] : i \in {j \in 1..Len(r.body) : r.body[j].campo = campo}}
    ELSE {}

Precio10_01 == Dec(0, <<1,0,0,1>>, -2)
Precio10_00 == Dec(0, <<1,0,0,0>>, -2)

\* the last response answers a POST or a PUT whose body was parsed
ConCuerpo == resp.op \in {"crear", "actualizar", "validar"} /\ resp.status # 404

\* C1: a price with more than 2 fractional digits is accepted and rounded
\* half-up to 2 fractional digits: a body whose name and categories are
\* accepted and whose price is 10.005 (10.004) is accepted, and the product
\* returned carries the price 10.01 (10.00).
C1_RoundingLaw ==
    \A par \in {<<Precio10_005, Precio10_01>>, <<Precio10_004, Precio10_00>>} :
       ( /\ ConCuerpo
         /\ resp.cuerpo.precio = par[1]
         /\ ErroresDe(resp, "nombre") = {}
         /\ ErroresDe(resp, "categorias") = {} )
       => /\ resp.status \in {200, 201}
          /\ resp.body[1].precio = par[2]

\* C2: the name is validated and stored trimmed: a body whose price and
\* categories are accepted is rejected exactly when its name, without the
\* surrounding whitespace, has fewer than 3 or more than 60 characters, and
\* the name of the product returned is the trimmed name.
C2_TrimmedName ==
    ( /\ ConCuerpo
      /\ ErroresDe(resp, "precio") = {}
      /\ ErroresDe(resp, "categorias") = {} )
    => /\ resp.status = 422
          <=> ( \/ Len(Strip(resp.cuerpo.nombre)) < NombreMinLen
                \/ Len(Strip(resp.cuerpo.nombre)) > NombreMaxLen )
       /\ resp.status \in {200, 201}
          => resp.body[1].nombre = Strip(resp.cuerpo.nombre)

BienFormado(p) ==
    /\ Positivo(p.precio)
    /\ p.precio.exp = -PrecioDecimalPlaces
    /\ p.categorias # <<>>
    /\ \A i, j \in 1..Len(p.categorias) : p.categorias[i] = p.categorias[j] => i = j
    /\ \A i \in 1..Len(p.categorias) :
          /\ p.categorias[i] \in CATALOGO_CATEGORIAS
          /\ p.categorias[i] = Lower(Strip(p.categorias[i]))
    /\ Strip(p.nombre) # <<>>

\* C3: every stored product is well-formed: a positive price with exactly 2
\* fractional digits, a non-empty list of distinct, trimmed, lowercase
\* catalog categories, and a name that is not blank.
C3_StoredWellFormed == \A k \in Keys(DB) : BienFormado(Get(DB, k))

\* a product made from a body with a padded, capitalised category and a
\* price of one fractional digit is in the store after a rejected request
C3_Witness ==
    /\ \E k \in Keys(DB) : Get(DB, k).categorias = <<Granos>>
                           /\ Get(DB, k).precio = Dec(0, <<1,0,5,0>>, -2)
    /\ resp.status = 422

\* C4: every id a create returns was never returned before and is not a key
\* of the store, the create adds that key and leaves the other entries as
\* they were, and every key of the store is the id of the product under it.
C4_UniqueIds ==
    /\ [](\A k \in Keys(DB) : Get(DB, k).id = k)
    /\ [][creados' # creados =>
            /\ resp'.id \notin emitidos
            /\ resp'.id \notin Keys(DB)
            /\ Keys(DB') = Keys(DB) \cup {resp'.id}
            /\ \A k \in Keys(DB) : Get(DB', k) = Get(DB, k)]_vars

\* two creates have answered and both products are in the store
C4_Witness == creados = 2 /\ Cardinality(Keys(DB)) = 2

\* C5: a GET answers 404 exactly when the id is not in the store, a 404 is
\* only ever answered for an id that is not in the store, and a GET of an id
\* whose DELETE has succeeded answers 404.
C5_NotFoundLifecycle ==
    /\ resp.op = "obtener" => (resp.status = 404 <=> resp.id \notin Keys(DB))
    /\ resp.status = 404 => resp.id \notin Keys(DB)
    /\ (resp.op = "obtener" /\ resp.id \in eliminados) => resp.status = 404

\* C6: in a sequential run the store holds, under every id created and not
\* deleted, the product the last successful POST or PUT on that id returned,
\* a GET returns it, and a POST or PUT returns the validated fields of its
\* body under the id (for a PUT, the id of the request).
C6_Refetch ==
    /\ Keys(DB) = DOMAIN escrito
    /\ \A k \in Keys(DB) : Get(DB, k) = escrito[k]
    /\ (resp.op = "obtener" /\ resp.status = 200) => resp.body = <<escrito[resp.id]>>
    /\ (resp.op \in {"crear", "actualizar"} /\ resp.status \in {200, 201})
          => /\ resp.body[1].id = resp.id
             /\ [f \in {"nombre", "precio", "categorias"} |-> resp.body[1][f]]
                   = model_validate(resp.cuerpo).val

\* a GET has returned one of two different products in the store
C6_Witness ==
    /\ resp.op = "obtener" /\ resp.status = 200
    /\ Cardinality(Keys(DB)) = 2
    /\ \E k \in Keys(DB) : Get(DB, k).nombre # resp.body[1].nombre

\* the raw list's error for its length, if any
ErrorDeLongitud ==
    {e \in ErroresDe(resp, "categorias") : e.tipo \in {"too_short", "too_long"}}

\* C7: the 1-10 bound on categories is on the raw list: a list of 0 or of
\* more than 10 entries is rejected for its length whatever it normalizes
\* to, and a list of 1 to 10 entries is never rejected for its length.
C7_RawLengthBound ==
    resp.op = "validar" =>
       /\ ( \/ Len(resp.cuerpo.categorias) < CategoriasMinLen
            \/ Len(resp.cuerpo.categorias) > CategoriasMaxLen )
          => (resp.status = 422 /\ ErrorDeLongitud # {})
       /\ Len(resp.cuerpo.categorias) \in CategoriasMinLen..CategoriasMaxLen
          => ErrorDeLongitud = {}

\* the trimmed, lowercased, non-blank entries of a raw list, in order
EntradasNormalizadas(v) ==
    LET Llena(c) == Strip(c) # <<>>
        f == SelectSeq(v, Llena)
    IN  [i \in 1..Len(f) |-> Lower(Strip(f[i]))]

\* 11 raw entries, of which the 10 catalog labels remain: rejected
C7_Witness ==
    /\ resp.op = "validar"
    /\ Len(resp.cuerpo.categorias) = CategoriasMaxLen + 1
    /\ Len(EntradasNormalizadas(resp.cuerpo.categorias)) = CategoriasMaxLen
    /\ ToSet(EntradasNormalizadas(resp.cuerpo.categorias)) = CATALOGO_CATEGORIAS
    /\ resp.status = 422

C9_NoResurrection == eliminados \cap Keys(DB) = {}

\* C10: every response is a success, a 422 or a 404.
C10_TwoErrorKinds == resp.status \in {0, 200, 201, 204, 404, 422}

=============================================================================
